---- MODULE Spec2Model ----
(***************************************************************************)
(* expo-apple-intelligence: the JavaScript API of src/src/AppleIntelligence.ts *)
(* over the native bridge (the Swift module of src/unnamed/part_001 on iOS,  *)
(* the Kotlin stub on Android), with the process-wide session registry       *)
(* SessionStore.shared.sessions and the calls that are awaiting the          *)
(* language-model runtime.                                                   *)
(***************************************************************************)
EXTENDS Naturals, Sequences, FiniteSets, Bags, TLC

(* ------------------------------ bounds --------------------------------- *)
\* session identifiers createSession can draw (UUID().uuidString)
MaxIds == 1
\* turns one context can hold
MaxTurns == 2
\* calls that can be awaiting the runtime at the same time
MaxInFlight == 1

Ids == 1..MaxIds
\* an identifier that createSession never draws (no UUID)
StrangerId == MaxIds + 1
\* the identifiers a caller can pass to the session operations
CallerIds == Ids \cup {StrangerId}
\* names for the LanguageModelSession objects that can be alive at once: one
\* per registered identifier, one more per suspended call, and the one being made
Handles == 1..(MaxIds + MaxInFlight + 1)

(* --------------------------- JavaScript values ------------------------- *)
JsStr(s) == [t |-> "string", s |-> s]
JsNull == [t |-> "null", s |-> ""]
JsUndefined == [t |-> "undefined", s |-> ""]
JsNumber == [t |-> "number", s |-> "42"]

\* !v of JavaScript, negated: '' , null and undefined are falsy
Truthy(v) == (v.t = "string" /\ v.s # "") \/ v.t = "number"
TypeofString(v) == v.t = "string"

\* the prompts, messages and system prompts the callers pass
Prompts == {JsStr(""), JsNull, JsNumber, JsStr("hi")}
Messages == {JsStr("m1"), JsNull}
SystemPrompts == {JsUndefined, JsStr(""), JsStr("p")}

\* a field that a result does not carry
Absent == "<absent>"
NoError == "<none>"

\* what a bridge call can fail with before the native handler runs:
\* nothing, an Error instance, or a thrown value that is no Error
Faults == {"none", "error", "nonError"}
FaultError(fault) == [isError |-> fault = "error", message |-> "bridge failure"]

Resolve(v) == [kind |-> "resolve", val |-> v]
Reject(e) == [kind |-> "reject", val |-> e]

\* error instanceof Error ? error.message : fallback
ErrorMessage(e, fallback) == IF e.isError THEN e.message ELSE fallback

GenerationFailure(msg) == [success |-> FALSE, response |-> Absent, error |-> msg]
GenerationSuccess(text) == [success |-> TRUE, response |-> text, error |-> Absent]

(* ------------------------------- state --------------------------------- *)
VARIABLES
  bridge,            \* which native module the build links: "absent", "android", "ios"
  osSupported,       \* iOS: canImport(FoundationModels) and #available(iOS 26.0)
  availability,      \* iOS: SystemLanguageModel.default.availability
  eagerImport,       \* build: the import of the bridge is evaluated with the importing
                     \* module (module semantics), or else at its first use (inlined requires)
  loadState,         \* evaluation of the library's modules: "unloaded", "loaded", "failed"
  isModuleAvailable, \* AppleIntelligence.ts:51
  moduleLoadError,   \* AppleIntelligence.ts:50
  sessions,          \* SessionStore.shared.sessions: identifier -> handle
  heap,              \* handle -> context of that LanguageModelSession (its turns)
  issued,            \* identifiers generated so far
  returned,          \* identifiers createSession has returned
  ended,             \* identifiers removed by endSession
  resetIds,          \* identifiers whose handle resetSession has replaced
  tasks,             \* calls suspended on session.respond(to:)
  last               \* the call that completed last, with its outcome

vars == <<bridge, osSupported, availability, eagerImport, loadState,
          isModuleAvailable, moduleLoadError, sessions, heap, issued,
          returned, ended, resetIds, tasks, last>>

platformVars == <<bridge, osSupported, eagerImport>>
loadVars == <<loadState, isModuleAvailable, moduleLoadError>>
registryVars == <<sessions, heap, issued, returned, ended, resetIds>>

Availabilities == {"available", "unavailable", "unknownCase"}
UnavailableReason == "modelNotReady"

NoCall == [op |-> "none"]
\* no outcome has been picked for inspection yet: nothing is explored past
\* the call whose outcome is inspected
Running == last = NoCall

Init ==
  /\ bridge \in {"absent", "android", "ios"}
  /\ osSupported \in (IF bridge = "ios" THEN BOOLEAN ELSE {FALSE})
  /\ availability \in (IF bridge = "ios" /\ osSupported THEN Availabilities ELSE {"unavailable"})
  /\ eagerImport \in (IF bridge = "absent" THEN BOOLEAN ELSE {TRUE})
  /\ loadState = "unloaded"
  /\ isModuleAvailable = FALSE
  /\ moduleLoadError = NoError
  /\ sessions = << >>
  /\ heap = << >>
  /\ issued = {}
  /\ returned = {}
  /\ ended = {}
  /\ resetIds = {}
  /\ tasks = EmptyBag
  /\ last = NoCall

(* --------------------------- module loading ---------------------------- *)
\* requireNativeModule('AppleIntelligence') throws when no native module is linked
RequireNativeModuleThrows == bridge = "absent"
LoadErrorText == "Cannot find native module 'AppleIntelligence'"

\* The import of line 1 runs requireNativeModule. Evaluated eagerly, its throw
\* leaves AppleIntelligence.ts unevaluated; evaluated at first use (line 55,
\* inside the try), it is caught and recorded in moduleLoadError.
LoadModule ==
  /\ Running
  /\ loadState = "unloaded"
  /\ IF RequireNativeModuleThrows
       THEN IF eagerImport
              THEN /\ loadState' = "failed"
                   /\ UNCHANGED <<isModuleAvailable, moduleLoadError>>
              ELSE /\ loadState' = "loaded"
                   /\ isModuleAvailable' = FALSE
                   /\ moduleLoadError' = LoadErrorText
       ELSE /\ loadState' = "loaded"
            /\ isModuleAvailable' = TRUE
            /\ moduleLoadError' = NoError
  /\ UNCHANGED <<platformVars, availability, registryVars, tasks, last>>

\* the readiness of the on-device model changes under the application
AvailabilityChanges(a) ==
  /\ Running
  /\ bridge = "ios" /\ osSupported
  /\ a # availability
  /\ availability' = a
  /\ UNCHANGED <<platformVars, loadVars, registryVars, tasks, last>>

(* ------------------------ native: availability ------------------------- *)
\* #if canImport(FoundationModels) / if #available(iOS 26.0, macOS 26.0, *)
FoundationModelsPresent == bridge = "ios" /\ osSupported
\* model.isAvailable
ModelIsAvailable == availability = "available"

SwiftIsAvailable == IF FoundationModelsPresent THEN ModelIsAvailable ELSE FALSE
KotlinIsAvailable == FALSE

AvailabilityRecord(st, flag, reason, msg) ==
  [status |-> st, isAvailable |-> flag, reason |-> reason, message |-> msg]

\* the unavailable branch written with the flag of the available one
SwiftGetAvailabilityStatusCopiedFlag ==
  IF FoundationModelsPresent
    THEN CASE availability = "available" ->
                AvailabilityRecord("available", TRUE, Absent,
                                   <<"Apple Intelligence is ready to use">>)
           [] availability = "unavailable" ->
                AvailabilityRecord("unavailable", TRUE, UnavailableReason,
                                   <<"Apple Intelligence is not available: ", UnavailableReason>>)
           [] OTHER ->
                AvailabilityRecord("unknown", FALSE, Absent, <<"Unknown availability status">>)
    ELSE AvailabilityRecord("unsupported", FALSE, Absent,
           <<"This iOS version does not support Foundation Models (requires iOS 26+)">>)

SwiftGetAvailabilityStatus ==
  IF FoundationModelsPresent
    THEN CASE availability = "available" ->
                AvailabilityRecord("available", TRUE, Absent,
                                   <<"Apple Intelligence is ready to use">>)
           [] availability = "unavailable" ->
                AvailabilityRecord("unavailable", FALSE, UnavailableReason,
                                   <<"Apple Intelligence is not available: ", UnavailableReason>>)
           [] OTHER ->
                AvailabilityRecord("unknown", FALSE, Absent, <<"Unknown availability status">>)
    ELSE AvailabilityRecord("unsupported", FALSE, Absent,
           <<"This iOS version does not support Foundation Models (requires iOS 26+)">>)

KotlinGetAvailabilityStatus ==
  AvailabilityRecord("unsupported", FALSE, Absent,
                     <<"Apple Intelligence is only available on iOS devices">>)

\* the operations each native module defines with AsyncFunction
SwiftFunctions == {"isAvailable", "getAvailabilityStatus", "generateResponse",
                   "createSession", "sendSessionMessage", "resetSession", "endSession"}
KotlinFunctions == {"isAvailable", "getAvailabilityStatus", "generateResponse",
                    "createSession", "sendSessionMessage", "resetSession"}
BridgeFunctions == IF bridge = "android" THEN KotlinFunctions ELSE SwiftFunctions

\* calling a property of the module object that the native module does not define
MissingFunction(op) ==
  [kind |-> "throw", val |-> [isError |-> TRUE, message |-> <<op, " is not a function">>]]

\* a call over the bridge: it throws when the module has no such function,
\* rejects when the bridge fails, and else the handler answers
BridgeOutcome(op, fault, answer) ==
  IF op \notin BridgeFunctions THEN MissingFunction(op)
  ELSE IF fault # "none" THEN Reject(FaultError(fault))
  ELSE answer

BridgeIsAvailable(fault) ==
  BridgeOutcome("isAvailable", fault,
    Resolve(IF bridge = "android" THEN KotlinIsAvailable ELSE SwiftIsAvailable))
BridgeGetAvailabilityStatus(fault) ==
  BridgeOutcome("getAvailabilityStatus", fault,
    Resolve(IF bridge = "android" THEN KotlinGetAvailabilityStatus
                                  ELSE SwiftGetAvailabilityStatus))

(* ------------------------- TypeScript: availability -------------------- *)
\* what the platform would answer isAvailable with
PlatformReady ==
  CASE bridge = "android" -> KotlinIsAvailable
    [] bridge = "ios" -> SwiftIsAvailable
    [] OTHER -> FALSE

\* what holds of the platform and of an identifier when a call is made
Snapshot(id) ==
  [wasReturned |-> id \in returned, wasEnded |-> id \in ended,
   wasReset |-> id \in resetIds,
   wasRegistered |-> id \in DOMAIN sessions,
   context |-> IF id \in DOMAIN sessions THEN heap[sessions[id]] ELSE << >>,
   platformReady |-> PlatformReady]

\* what a completed call leaves in last: the call, its outcome, whether it
\* went over the bridge and whether its argument reached the runtime
Completed(op, id, arg, fault, outcome, bridgeCalled, forwarded, snap) ==
  [op |-> op, id |-> id, arg |-> arg, fault |-> fault,
   kind |-> outcome.kind, val |-> outcome.val,
   bridgeCalled |-> bridgeCalled, forwarded |-> forwarded,
   wasReturned |-> snap.wasReturned, wasEnded |-> snap.wasEnded,
   wasReset |-> snap.wasReset, wasRegistered |-> snap.wasRegistered, context |-> snap.context,
   platformReady |-> snap.platformReady]

\* the identifier slot of a call that takes none: a name outside CallerIds
NoId == StrangerId + 1

\* The outcome of one completed call is kept for inspection, whichever call
\* the observer picks; the calls that are not picked leave no record.
Observe(call) == last' \in {NoCall, call}

\* a bridge rejection that the caller receives as it is: Error or not is the same
PassedFaults == {"none", "error"}

IsAvailableOutcome(fault) ==
  IF ~isModuleAvailable
    THEN Resolve(FALSE)
    ELSE LET r == BridgeIsAvailable(fault)
         IN IF r.kind \in {"reject", "throw"} THEN Resolve(FALSE) ELSE r

IsAvailable(fault) ==
  /\ Running
  /\ loadState = "loaded"
  /\ Observe(Completed("isAvailable", NoId, JsUndefined, fault,
                       IsAvailableOutcome(fault), isModuleAvailable, FALSE, Snapshot(NoId)))
  /\ UNCHANGED <<platformVars, availability, loadVars, registryVars, tasks>>

ModuleUnavailableStatus ==
  AvailabilityRecord("unsupported", FALSE, Absent,
    IF moduleLoadError # NoError
      THEN <<"Native module failed to load: ", moduleLoadError>>
      ELSE <<"Apple Intelligence is only available on iOS 26+ devices">>)

QueryFailedStatus(e) ==
  AvailabilityRecord("unknown", FALSE, Absent,
    <<"Error checking availability: ", ErrorMessage(e, "Unknown error")>>)

GetAvailabilityStatusOutcome(fault) ==
  IF ~isModuleAvailable
    THEN Resolve(ModuleUnavailableStatus)
    ELSE LET r == BridgeGetAvailabilityStatus(fault)
         IN IF r.kind \in {"reject", "throw"} THEN Resolve(QueryFailedStatus(r.val)) ELSE r

GetAvailabilityStatus(fault) ==
  /\ Running
  /\ loadState = "loaded"
  /\ Observe(Completed("getAvailabilityStatus", NoId, JsUndefined, fault,
                       GetAvailabilityStatusOutcome(fault), isModuleAvailable, FALSE,
                       Snapshot(NoId)))
  /\ UNCHANGED <<platformVars, availability, loadVars, registryVars, tasks>>

\* The library's modules did not evaluate (the import of line 1 threw): every
\* use of an exported function throws the load error instead of calling it.
PublicOps == {"isAvailable", "getAvailabilityStatus", "generateResponse", "createSession"}
UseAfterFailedLoad(op, arg) ==
  /\ Running
  /\ loadState = "failed"
  /\ Observe(Completed(op, NoId, arg, "none",
                       [kind |-> "throw", val |-> [isError |-> TRUE, message |-> LoadErrorText]],
                       FALSE, FALSE, Snapshot(NoId)))
  /\ UNCHANGED <<platformVars, availability, loadVars, registryVars, tasks>>

(* --------------------------- generation -------------------------------- *)
\* the handler is suspended on session.respond(to:)
Suspend == [kind |-> "suspend", val |-> Absent]
\* the handler has passed its guards and goes on to change the registry
Proceed == [kind |-> "proceed", val |-> Absent]

NotAvailableOnDevice == "Apple Intelligence is not available on this device"
OnlyOnIos == "Apple Intelligence is only available on iOS devices"
PromptMustBeString == "Prompt must be a non-empty string"
SessionNotFound == "Session not found. Create a new session first."
RuntimeReplyText == "reply"
RuntimeErrorText == "runtime error"

\* the handle slot of a call that holds none: a name outside Handles
NoHandle == MaxIds + MaxInFlight + 2
Task(op, id, h, arg, snap) == [op |-> op, id |-> id, h |-> h, arg |-> arg, snap |-> snap]

\* LanguageModelSession(): a new object with an empty context
NextHandle == CHOOSE h \in Handles : h \notin DOMAIN heap /\ \A g \in 1..(h - 1) : g \in DOMAIN heap
Allocate == heap @@ (NextHandle :> << >>)

\* an object lives as long as the registry or a suspended call refers to it
Referenced(reg, pending) ==
  {reg[k] : k \in DOMAIN reg} \cup {t.h : t \in BagToSet(pending)}
Release(objects, reg, pending) ==
  [h \in DOMAIN objects \cap Referenced(reg, pending) |-> objects[h]]

\* calls suspended on the handle h
InFlightOn(h) ==
  LET on == {t \in BagToSet(tasks) : t.h = h}
  IN BagCardinality([t \in on |-> tasks[t]])
InFlight == BagCardinality(tasks)
HasRoom(h) == Len(heap[h]) + InFlightOn(h) < MaxTurns
Suspended(t) == tasks (+) SetToBag({t})

\* conversion of a JavaScript argument to a handler parameter declared String
ConvertsToString(v) == v.t = "string"
ArgumentError == [isError |-> TRUE, message |-> "argument cannot be cast to String"]

SwiftGenerateResponse ==
  IF FoundationModelsPresent
    THEN IF ~ModelIsAvailable
           THEN Resolve(GenerationFailure(NotAvailableOnDevice))
           ELSE Suspend
    ELSE Resolve(GenerationFailure(
           "Foundation Models framework is not available (requires iOS 26+)"))

KotlinGenerateResponse == Resolve(GenerationFailure(OnlyOnIos))

BridgeGenerateResponse(prompt, fault) ==
  BridgeOutcome("generateResponse", fault,
    IF ~ConvertsToString(prompt) THEN Reject(ArgumentError)
    ELSE IF bridge = "android" THEN KotlinGenerateResponse
    ELSE SwiftGenerateResponse)

\* the guard without its !prompt half
PromptIsValidTypeOnly(prompt) == TypeofString(prompt)

\* generateResponse reaches the bridge only past both guards
PromptIsValid(prompt) == Truthy(prompt) /\ TypeofString(prompt)

GenerateResponseOutcome(prompt, fault) ==
  IF ~isModuleAvailable
    THEN Resolve(GenerationFailure(NotAvailableOnDevice))
  ELSE IF ~PromptIsValid(prompt)
    THEN Resolve(GenerationFailure(PromptMustBeString))
  ELSE LET r == BridgeGenerateResponse(prompt, fault)
       IN IF r.kind \in {"reject", "throw"}
            THEN Resolve(GenerationFailure(
                   ErrorMessage(r.val, "Unknown error generating response")))
            ELSE r

GenerateResponse(prompt, fault) ==
  /\ Running
  /\ loadState = "loaded"
  /\ LET out == GenerateResponseOutcome(prompt, fault)
     IN IF out.kind = "suspend"
          THEN /\ InFlight < MaxInFlight
               /\ tasks' = Suspended(Task("generateResponse", NoId, NoHandle,
                                            prompt, Snapshot(NoId)))
               /\ UNCHANGED last
          ELSE /\ Observe(Completed("generateResponse", NoId, prompt, fault, out,
                                    isModuleAvailable /\ PromptIsValid(prompt), FALSE,
                                    Snapshot(NoId)))
               /\ UNCHANGED tasks
  /\ UNCHANGED <<platformVars, availability, loadVars, registryVars>>

(* ----------------------------- sessions -------------------------------- *)
NSError(msg) == [isError |-> TRUE, message |-> msg]

\* the test without its !systemPrompt.isEmpty half
SeedIsSentUnlessNil(sp) == sp.t = "string"

\* if let systemPrompt = systemPrompt, !systemPrompt.isEmpty
SeedIsSent(sp) == sp.t = "string" /\ sp.s # ""
SeedTurn(sp) == [prefix |-> "System: ", text |-> sp.s]
MessageTurn(m) == [prefix |-> "", text |-> m.s]

SwiftCreateSession ==
  IF FoundationModelsPresent
    THEN IF ~ModelIsAvailable
           THEN Reject(NSError("Apple Intelligence is not available"))
           ELSE Proceed
    ELSE Reject(NSError("Foundation Models not available"))

KotlinCreateSession == Reject(NSError(OnlyOnIos))

BridgeCreateSession(fault) ==
  BridgeOutcome("createSession", fault,
    IF bridge = "android" THEN KotlinCreateSession ELSE SwiftCreateSession)

\* UUID().uuidString: an identifier not drawn before (the lowest such name)
FreshIds == {i \in Ids \ issued : \A j \in Ids \ issued : i <= j}

\* the Session object createSession resolves to
SessionObject(id) == [id |-> id]

CreateSessionFailure(e) ==
  Reject([isError |-> TRUE,
          message |-> <<"Failed to create session: ", ErrorMessage(e, "Unknown error")>>])

CreateSessionOutcome(fault) ==
  IF ~isModuleAvailable
    THEN Reject([isError |-> TRUE, message |-> NotAvailableOnDevice])
    ELSE LET r == BridgeCreateSession(fault)
         IN IF r.kind \in {"reject", "throw"} THEN CreateSessionFailure(r.val) ELSE r

\* SessionStore.shared.sessions[sessionId] = session
Register(id, h) == [k \in DOMAIN sessions \cup {id} |-> IF k = id THEN h ELSE sessions[k]]

\* the identifier stored before the seeding turn is awaited
AwaitingSeedStored(id, h) == Register(id, h)

\* the registry while createSession awaits the seeding turn: the store of
\* line 132 comes after the await of line 129
AwaitingSeed(id, h) == sessions

CreateSession(sp, fault) ==
  /\ Running
  /\ loadState = "loaded"
  /\ LET out == CreateSessionOutcome(fault)
     IN IF out.kind = "proceed"
          THEN \E id \in FreshIds :
                 /\ issued' = issued \cup {id}
                 /\ heap' = Allocate
                 /\ UNCHANGED <<ended, resetIds>>
                 /\ IF SeedIsSent(sp)
                      THEN /\ InFlight < MaxInFlight
                           /\ tasks' = Suspended(Task("createSession", id, NextHandle,
                                                        sp, Snapshot(id)))
                           /\ sessions' = AwaitingSeed(id, NextHandle)
                           /\ UNCHANGED <<returned, last>>
                      ELSE /\ sessions' = Register(id, NextHandle)
                           /\ returned' = returned \cup {id}
                           /\ Observe(Completed("createSession", id, sp, fault,
                                                Resolve(SessionObject(id)), TRUE, FALSE,
                                                Snapshot(id)))
                           /\ UNCHANGED tasks
          ELSE /\ Observe(Completed("createSession", NoId, sp, fault, out,
                                    isModuleAvailable, FALSE, Snapshot(NoId)))
               /\ UNCHANGED <<registryVars, tasks>>
  /\ UNCHANGED <<platformVars, availability, loadVars>>

SwiftSendSessionMessage(id) ==
  IF FoundationModelsPresent
    THEN IF id \in DOMAIN sessions
           THEN Suspend
           ELSE Resolve(GenerationFailure(SessionNotFound))
    ELSE Resolve(GenerationFailure("Foundation Models not available"))

KotlinSendSessionMessage == Resolve(GenerationFailure(OnlyOnIos))

BridgeSendSessionMessage(id, m, fault) ==
  BridgeOutcome("sendSessionMessage", fault,
    IF ~ConvertsToString(m) THEN Reject(ArgumentError)
    ELSE IF bridge = "android" THEN KotlinSendSessionMessage
    ELSE SwiftSendSessionMessage(id))

\* A call of the module's sendSessionMessage: the sendMessage of a Session
\* object forwards its identifier and the message and returns the bridge's
\* promise as it is; the exported module object takes the same call directly.
SendSessionMessage(id, m, fault) ==
  /\ Running
  /\ loadState = "loaded"
  /\ bridge # "absent"
  /\ LET out == BridgeSendSessionMessage(id, m, fault)
     IN IF out.kind = "suspend"
          THEN /\ InFlight < MaxInFlight
               /\ HasRoom(sessions[id])
               /\ tasks' = Suspended(Task("sendSessionMessage", id, sessions[id], m,
                                           Snapshot(id)))
               /\ UNCHANGED last
          ELSE /\ Observe(Completed("sendSessionMessage", id, m, fault, out, TRUE, FALSE,
                                    Snapshot(id)))
               /\ UNCHANGED tasks
  /\ UNCHANGED <<platformVars, availability, loadVars, registryVars>>

\* the removal left out
UnregisterKept(id) == sessions

\* SessionStore.shared.sessions.removeValue(forKey: sessionId)
Unregister(id) == [k \in DOMAIN sessions \ {id} |-> sessions[k]]

\* the old session removed and no new one stored
ReplacedDropped(id) == Unregister(id)

\* SessionStore.shared.sessions[sessionId] = LanguageModelSession()
Replaced(id) == Register(id, NextHandle)

\* resetSession changes the registry only for a registered identifier
SwiftResets(id) == FoundationModelsPresent /\ id \in DOMAIN sessions
KotlinResets(id) == FALSE
Resets(id) == IF bridge = "android" THEN KotlinResets(id) ELSE SwiftResets(id)

BridgeResetSession(fault) == BridgeOutcome("resetSession", fault, Resolve(Absent))

\* A call of the module's resetSession, by the reset of a Session object or directly
ResetSession(id, fault) ==
  /\ Running
  /\ loadState = "loaded"
  /\ bridge # "absent"
  /\ LET out == BridgeResetSession(fault)
     IN /\ IF out.kind = "resolve" /\ Resets(id)
             THEN /\ sessions' = Replaced(id)
                  /\ heap' = Release(Allocate, sessions', tasks)
                  /\ resetIds' = resetIds \cup {id}
             ELSE UNCHANGED <<sessions, heap, resetIds>>
        /\ Observe(Completed("resetSession", id, JsUndefined, fault, out, TRUE, FALSE,
                             Snapshot(id)))
  /\ UNCHANGED <<platformVars, availability, loadVars, issued, returned, ended, tasks>>

SwiftEnds(id) == FoundationModelsPresent

BridgeEndSession == BridgeOutcome("endSession", "none", Resolve(Absent))

EndSession(id) ==
  /\ Running
  /\ loadState = "loaded"
  /\ bridge # "absent"
  /\ LET out == BridgeEndSession
     IN /\ IF out.kind = "resolve" /\ SwiftEnds(id)
             THEN /\ sessions' = Unregister(id)
                  /\ heap' = Release(heap, sessions', tasks)
                  /\ ended' = IF id \in DOMAIN sessions THEN ended \cup {id} ELSE ended
             ELSE UNCHANGED <<sessions, heap, ended>>
        /\ Observe(Completed("endSession", id, JsUndefined, "none", out, TRUE, FALSE,
                             Snapshot(id)))
  /\ UNCHANGED <<platformVars, availability, loadVars, issued, returned, resetIds, tasks>>

(* ------------------------- the runtime answers ------------------------- *)
Resumed(t) == tasks (-) SetToBag({t})

\* session.respond(to:) returns: the turn joins the context of the object
Responded(h, turn) == [heap EXCEPT ![h] = Append(@, turn)]

GenerationReply(ok) ==
  IF ok THEN Resolve(GenerationSuccess(RuntimeReplyText))
        ELSE Resolve(GenerationFailure(RuntimeErrorText))

\* the registry looked up again when the runtime answers
RespondingSessionLookedUp(t) ==
  IF t.id \in DOMAIN sessions THEN sessions[t.id] ELSE t.h

\* guard let session = ...sessions[sessionId]: the object is bound once,
\* before the await, and the answer joins the context of that object
RespondingSession(t) == t.h

RuntimeReplies(t, ok) ==
  /\ Running
  /\ t \in BagToSet(tasks)
  /\ tasks' = Resumed(t)
  /\ CASE t.op = "generateResponse" ->
            /\ Observe(Completed(t.op, t.id, t.arg, "none", GenerationReply(ok),
                                 TRUE, TRUE, t.snap))
            /\ UNCHANGED registryVars
       [] t.op = "createSession" ->
            IF ok
              THEN /\ heap' = Responded(t.h, SeedTurn(t.arg))
                   /\ sessions' = Register(t.id, t.h)
                   /\ returned' = returned \cup {t.id}
                   /\ Observe(Completed(t.op, t.id, t.arg, "none",
                                        Resolve(SessionObject(t.id)), TRUE, TRUE, t.snap))
                   /\ UNCHANGED <<issued, ended, resetIds>>
              ELSE /\ heap' = Release(heap, sessions, tasks')
                   /\ Observe(Completed(t.op, t.id, t.arg, "none",
                                        CreateSessionFailure(NSError(RuntimeErrorText)),
                                        TRUE, TRUE, t.snap))
                   /\ UNCHANGED <<sessions, issued, returned, ended, resetIds>>
       [] OTHER ->
            /\ heap' = Release(IF ok THEN Responded(RespondingSession(t), MessageTurn(t.arg))
                                     ELSE heap,
                               sessions, tasks')
            /\ Observe(Completed(t.op, t.id, t.arg, "none", GenerationReply(ok),
                                 TRUE, TRUE, t.snap))
            /\ UNCHANGED <<sessions, issued, returned, ended, resetIds>>
  /\ UNCHANGED <<platformVars, availability, loadVars>>

Next ==
  \/ LoadModule
  \/ \E a \in Availabilities : AvailabilityChanges(a)
  \/ \E fault \in Faults : IsAvailable(fault)
  \/ \E fault \in Faults : GetAvailabilityStatus(fault)
  \/ \E prompt \in Prompts, fault \in Faults : GenerateResponse(prompt, fault)
  \/ \E sp \in SystemPrompts, fault \in Faults : CreateSession(sp, fault)
  \/ \E id \in CallerIds, m \in Messages, fault \in PassedFaults : SendSessionMessage(id, m, fault)
  \/ \E id \in CallerIds, fault \in PassedFaults : ResetSession(id, fault)
  \/ \E id \in CallerIds : EndSession(id)
  \/ \E t \in BagToSet(tasks), ok \in BOOLEAN : RuntimeReplies(t, ok)
  \/ \E op \in PublicOps, arg \in Prompts : UseAfterFailedLoad(op, arg)

Spec == Init /\ [][Next]_vars

(* ------------------------------ properties ----------------------------- *)
StatusValues == {"available", "unavailable", "unsupported", "unknown"}

\* C1: isAvailable() resolves in every platform state and never rejects; with
\* the bridge absent, or when the query of the platform fails, it resolves to false.
C1_IsAvailableNeverRejects ==
  last.op = "isAvailable" =>
    /\ last.kind = "resolve"
    /\ (bridge = "absent" \/ last.fault # "none") => last.val = FALSE

\* C2: getAvailabilityStatus() never lets an exception reach the caller: on
\* every path it resolves to a value with status, isAvailable and message set,
\* and a failed query resolves to status unknown with the error text in the message.
C2_StatusNeverThrows ==
  last.op = "getAvailabilityStatus" =>
    /\ last.kind = "resolve"
    /\ last.val.status \in StatusValues
    /\ last.val.isAvailable \in BOOLEAN
    /\ Len(last.val.message) > 0
    /\ (last.fault # "none" /\ bridge # "absent") =>
         /\ last.val.status = "unknown"
         /\ last.val.message = <<"Error checking availability: ",
                                 ErrorMessage(FaultError(last.fault), "Unknown error")>>

\* C3: in every value getAvailabilityStatus() resolves to, isAvailable is true
\* exactly when status is available.
C3_FlagIffAvailable ==
  (last.op = "getAvailabilityStatus" /\ last.kind = "resolve") =>
    (last.val.isAvailable <=> last.val.status = "available")

\* the status of a ready iOS platform has come back
C3_Witness ==
  /\ last.op = "getAvailabilityStatus"
  /\ last.kind = "resolve"
  /\ last.val.status = "available"
  /\ last.val.isAvailable

\* C4: with the bridge absent, getAvailabilityStatus() returns status
\* unsupported and a message saying that the native module failed to load.
C4_AbsentBridgeIsUnsupported ==
  (last.op = "getAvailabilityStatus" /\ bridge = "absent") =>
    /\ last.kind = "resolve"
    /\ last.val.status = "unsupported"
    /\ last.val.message = <<"Native module failed to load: ", LoadErrorText>>

EmptyPrompts == {JsStr(""), JsNull}
PromptFailure == GenerationFailure(PromptMustBeString)

\* C5, as stated: generateResponse('') and generateResponse(null) resolve to
\* the prompt failure without contacting the platform in every platform
\* state, the absent bridge included.
C5_EmptyPromptEverywhere ==
  (last.op = "generateResponse" /\ last.arg \in EmptyPrompts) =>
    /\ last.kind = "resolve"
    /\ last.val = PromptFailure
    /\ ~last.bridgeCalled /\ ~last.forwarded

\* C5, amended: the same in every platform state that has a bridge (the
\* Android stub, iOS without Foundation Models, iOS not ready, iOS ready).
C5_EmptyPromptWithBridge ==
  (last.op = "generateResponse" /\ last.arg \in EmptyPrompts /\ bridge # "absent") =>
    /\ last.kind = "resolve"
    /\ last.val = PromptFailure
    /\ ~last.bridgeCalled /\ ~last.forwarded

\* an empty prompt was refused on a platform that would have answered
C5_Witness ==
  /\ last.op = "generateResponse"
  /\ last.arg \in EmptyPrompts
  /\ last.platformReady
  /\ last.val = PromptFailure

\* a send that reached the handler: no bridge failure, a string for a message
PlainSend ==
  /\ last.op = "sendSessionMessage"
  /\ last.fault = "none"
  /\ ConvertsToString(last.arg)

NotFoundFailure == GenerationFailure(SessionNotFound)

\* C6, as stated: after any sequence of session calls, sendSessionMessage(id, m)
\* for an id that createSession never returned, or that was ended, resolves to
\* the session-not-found failure and m is not forwarded to the runtime.
C6_UnknownSessionNotFound ==
  (PlainSend /\ (~last.wasReturned \/ last.wasEnded)) =>
    /\ last.kind = "resolve"
    /\ last.val = NotFoundFailure
    /\ ~last.forwarded

\* the fixed failure of a platform without Foundation Models
UnsupportedSendFailure ==
  GenerationFailure(IF bridge = "android" THEN OnlyOnIos
                                          ELSE "Foundation Models not available")

\* C6, amended: on iOS with Foundation Models the call resolves to the
\* session-not-found failure; on the Android stub and on iOS without
\* Foundation Models it resolves to that platform's fixed failure; m is
\* forwarded to the runtime in neither case.
C6_UnknownSessionRefused ==
  (PlainSend /\ (~last.wasReturned \/ last.wasEnded)) =>
    /\ last.kind = "resolve"
    /\ last.val = IF FoundationModelsPresent THEN NotFoundFailure
                                             ELSE UnsupportedSendFailure
    /\ ~last.forwarded

\* a message was sent to a session that had been ended
C6_Witness ==
  /\ PlainSend
  /\ last.wasEnded
  /\ last.val = NotFoundFailure

\* a call of the public API: an exported function, or the sendMessage or
\* reset of a Session object that createSession returned
PublicCall ==
  \/ last.op \in PublicOps
  \/ last.op \in {"sendSessionMessage", "resetSession"} /\ last.wasReturned

\* C7: generateResponse and the sendMessage of a session report every failure
\* in a resolved result with success = false and never reject; createSession
\* is the only public operation that can reject.
C7_OnlyCreateSessionRejects ==
  (PublicCall /\ last.op # "createSession") =>
    /\ last.kind = "resolve"
    /\ last.op \in {"generateResponse", "sendSessionMessage"} =>
         (last.val.success <=> last.val.error = Absent)

\* C8: on a platform that reports unavailable (iOS not ready, iOS without
\* Foundation Models, the Android stub, the bridge absent) createSession()
\* rejects, generateResponse('hi') resolves with success = false and
\* isAvailable() resolves to false.
C8_UnavailablePlatform ==
  (last.op \in PublicOps /\ ~last.platformReady) =>
    /\ last.op = "createSession" => last.kind \in {"reject", "throw"}
    /\ (last.op = "generateResponse" /\ last.arg = JsStr("hi")) =>
         (last.kind = "resolve" /\ ~last.val.success)
    /\ last.op = "isAvailable" => (last.kind = "resolve" /\ last.val = FALSE)

\* C9: resetSession keeps a registered identifier registered and puts a new
\* handle with an empty context under it, which no suspended call refers to;
\* a message sent to a session after its reset is forwarded to the runtime
\* and resolves to the runtime's answer, never to session-not-found.
C9_ResetKeepsSession ==
  /\ (last.op = "resetSession" /\ last.kind = "resolve" /\ last.wasRegistered) =>
       /\ last.id \in DOMAIN sessions
       /\ heap[sessions[last.id]] = << >>
       /\ \A t \in BagToSet(tasks) : t.h # sessions[last.id]
  /\ (PlainSend /\ last.wasReset /\ ~last.wasEnded) =>
       /\ last.kind = "resolve"
       /\ last.forwarded
       /\ last.val \in {GenerationSuccess(RuntimeReplyText),
                         GenerationFailure(RuntimeErrorText)}

\* a session made with a system prompt was reset and then answered a message
C9_Witness ==
  /\ PlainSend
  /\ last.wasReset
  /\ last.kind = "resolve"
  /\ last.val = GenerationSuccess(RuntimeReplyText)
  /\ heap[sessions[last.id]] = <<MessageTurn(last.arg)>>

DownwardOps == {"isAvailable", "getAvailabilityStatus", "generateResponse",
                "createSession", "sendSessionMessage", "resetSession", "endSession"}

\* C10: the stub of the non-capable platform implements every downward
\* operation with the fixed unsupported answer in that operation's result
\* shape (false, a status object, a failure result, a thrown error, a no-op);
\* no call fails because the operation is missing.
C10_StubAnswersEveryOperation ==
  (bridge = "android" /\ last.op \in DownwardOps /\ last.fault = "none") =>
    /\ last.kind # "throw"
    /\ last.op = "isAvailable" => last.val = FALSE
    /\ last.op = "getAvailabilityStatus" => last.val.status = "unsupported"
    /\ (last.op = "generateResponse" /\ PromptIsValid(last.arg)) =>
         last.val = GenerationFailure(OnlyOnIos)
    /\ last.op = "createSession" => last.kind = "reject"
    /\ (last.op = "sendSessionMessage" /\ ConvertsToString(last.arg)) =>
         last.val = GenerationFailure(OnlyOnIos)
    /\ last.op \in {"resetSession", "endSession"} => last.kind = "resolve"

\* a reset or an end that reached the bridge without a bridge failure, for an
\* identifier the registry did not hold
UnregisteredResetOrEnd ==
  /\ last'.op \in {"resetSession", "endSession"}
  /\ last'.fault = "none"
  /\ ~last'.wasRegistered

\* C11: resetSession(id) and endSession(id) on an identifier that is not
\* registered (never created, or already ended) resolve without error and
\* leave the registry as it was: no entry added, removed or replaced.
C11_UnregisteredIsNoOp ==
  [][(last' # last /\ UnregisteredResetOrEnd) =>
       /\ last'.kind = "resolve"
       /\ sessions' = sessions
       /\ heap' = heap]_vars

\* the same where the native module defines both operations: on iOS the
\* registry is left as it was
C11_UnregisteredIsNoOpOnIos ==
  [][(last' # last /\ UnregisteredResetOrEnd /\ bridge = "ios") =>
       /\ last'.kind = "resolve"
       /\ sessions' = sessions
       /\ heap' = heap]_vars

\* a system prompt was supplied and is not the empty string
NonEmptySystemPrompt(sp) == sp.t = "string" /\ sp.s # ""

\* C12: createSession seeds the context exactly when a non-empty system
\* prompt is supplied. With one, exactly one round trip on the new handle is
\* completed before the identifier is returned, so the handle is registered
\* with the seeding turn alone and the first message of the caller becomes
\* the second turn; with an absent or empty prompt the handle is registered
\* with an empty context and nothing is sent to the runtime. While the
\* seeding turn is awaited the context of the new handle is still empty.
C12_SeedsExactlyWithPrompt ==
  /\ (last.op = "createSession" /\ last.kind = "resolve") =>
       /\ last.id \in DOMAIN sessions
       /\ last.forwarded <=> NonEmptySystemPrompt(last.arg)
       /\ heap[sessions[last.id]] =
            IF NonEmptySystemPrompt(last.arg) THEN <<SeedTurn(last.arg)>> ELSE << >>
  /\ \A t \in BagToSet(tasks) :
       t.op = "createSession" => (NonEmptySystemPrompt(t.arg) /\ heap[t.h] = << >>)
  /\ (/\ PlainSend
      /\ last.val = GenerationSuccess(RuntimeReplyText)
      /\ \E sp \in SystemPrompts : last.context = <<SeedTurn(sp)>>
      /\ last.id \in DOMAIN sessions
      /\ (last.id \in resetIds) = last.wasReset) =>
       SubSeq(heap[sessions[last.id]], 1, 2) = Append(last.context, MessageTurn(last.arg))

\* createSession with a system prompt has returned a session whose context
\* holds the seeding turn and nothing else
C12_Witness ==
  /\ last.op = "createSession"
  /\ last.kind = "resolve"
  /\ last.arg = JsStr("p")
  /\ last.forwarded
  /\ heap[sessions[last.id]] = <<SeedTurn(JsStr("p"))>>

\* createSession is awaiting the seeding turn of the identifier id
SeedingPending(id) ==
  \E t \in BagToSet(tasks) : t.op = "createSession" /\ t.id = id

\* C13: an identifier enters the registry only as the last step of a
\* successful createSession. A createSession that resolves adds exactly its
\* new identifier; one that does not resolve (the availability check failed,
\* the seeding turn failed) rejects and leaves the registry as it was; no
\* other operation adds an identifier. While the seeding turn is awaited the
\* identifier is not registered, and a message sent to it in the meantime is
\* answered with session-not-found and not forwarded.
C13_RegisteredOnlyOnSuccess ==
  [][/\ (last' # last /\ last'.op = "createSession") =>
          /\ last'.kind \in {"resolve", "reject", "throw"}
          /\ ~last'.platformReady => last'.kind # "resolve"
          /\ last'.kind = "resolve" =>
               /\ last'.id \notin DOMAIN sessions
               /\ DOMAIN sessions' = DOMAIN sessions \cup {last'.id}
               /\ \A k \in DOMAIN sessions : sessions'[k] = sessions[k]
          /\ last'.kind # "resolve" => sessions' = sessions
     /\ (last' # last /\ last'.op # "createSession") =>
          DOMAIN sessions' \subseteq DOMAIN sessions
     /\ \A id \in Ids : SeedingPending(id)' => id \notin DOMAIN sessions'
     /\ (last' # last /\ PlainSend' /\ SeedingPending(last'.id)) =>
          (last'.val = NotFoundFailure /\ ~last'.forwarded)]_vars

\* the seeding turn failed: createSession rejected and its identifier, which
\* had been drawn, is not in the registry
C13_Witness ==
  /\ last.op = "createSession"
  /\ last.forwarded
  /\ last.kind = "reject"
  /\ last.id \in issued
  /\ last.id \notin DOMAIN sessions

\* the suspended send t is answered in this step
SendAnswered(t) == t.op = "sendSessionMessage" /\ tasks' = Resumed(t)

\* C14: sendSessionMessage binds its handle once, before it awaits the
\* runtime. A send in flight while resetSession or endSession runs is still
\* answered with the runtime's reply, and its completion changes nothing in
\* the registry: no identifier is added or replaced (an ended identifier
\* stays absent), and the context of every registered handle other than the
\* one the send was bound to (the empty one a reset stored) stays as it was.
\* A reset or an end does not touch the send in flight.
C14_InFlightSendKeepsOldHandle ==
  [][/\ \A t \in BagToSet(tasks) :
          SendAnswered(t) =>
            /\ sessions' = sessions
            /\ \A id \in DOMAIN sessions :
                 sessions[id] # t.h => heap'[sessions[id]] = heap[sessions[id]]
            /\ last' # last =>
                 /\ last'.kind = "resolve"
                 /\ last'.forwarded
                 /\ last'.val \in {GenerationSuccess(RuntimeReplyText),
                                    GenerationFailure(RuntimeErrorText)}
     /\ (last' # last /\ last'.op \in {"resetSession", "endSession"}) =>
          tasks' = tasks]_vars

\* a send was answered after its session had been reset in the meantime: the
\* handle now registered is not the one the send was bound to, and its
\* context is still empty
C14_Witness ==
  /\ PlainSend
  /\ last.forwarded
  /\ last.val = GenerationSuccess(RuntimeReplyText)
  /\ ~last.wasReset
  /\ last.id \in resetIds
  /\ last.id \in DOMAIN sessions
  /\ heap[sessions[last.id]] = << >>
====
